---------------------------- MODULE Spec2Model ----------------------------
(***************************************************************************)
(* A model of satfire/viirstools.py: the granule aggregator, the           *)
(* completeness checker, the footprint extractor (getedge) and the catalog *)
(* builder (getgranulecatalog).                                            *)
(*                                                                         *)
(* Python values are modelled as follows: str -> TLA+ string, dict ->      *)
(* function with a domain of strings, list / 1-D array -> sequence, 2-D    *)
(* array -> sequence of rows, True / False / None -> "True" / "False" /    *)
(* "None" (a dict holds them next to file names, so they share a type).    *)
(***************************************************************************)
EXTENDS Integers, Sequences, FiniteSets, TLC

VARIABLES
    \* checkviirsganulecomplete(granuledict, dataset)
    granuledict, dataset, complete, checkpc,
    \* getedge(viirsdataset, step)
    lats, lons, step, frst, lst, edgelons, edgelats, edgepc,
    \* the file system: directory path -> names of its entries
    fs,
    \* getoverpassesbygranulefordir(dirname)
    dirname, overpasses, aggpc,
    \* what opening, reading and closing each imagery file does
    health,
    \* getgranulecatalog(basedir, scenelist): its argument, its local
    \* variables, its position, the keys its two loops have yet to visit,
    \* the path it last opened and the handles it has not closed
    scenelist, intermediary, catalog, overpass, granule, viirs, pc,
    todooverpasses, todogranules, openpath, unclosed,
    \* the calls made so far, the outcome of the last one and of the one before
    calls, outcome, returned, prevscenelist, prevoutcome, prevreturned

checkvars == <<granuledict, dataset, complete, checkpc>>
edgevars == <<lats, lons, step, frst, lst, edgelons, edgelats, edgepc>>
aggvars == <<dirname, overpasses, aggpc>>
loopvars == <<overpass, granule, todooverpasses, todogranules>>
iovars == <<viirs, openpath, unclosed>>
callvars == <<calls, outcome, returned, prevscenelist, prevoutcome, prevreturned>>
catvars == <<health, scenelist, intermediary, catalog, pc, loopvars, iovars, callvars>>
vars == <<checkvars, edgevars, fs, aggvars, catvars>>

-----------------------------------------------------------------------------
(* Bounds of the model *)

\* at most this many band-type codes of a granule mapping are absent or empty
MaxDefects == 2
\* the coordinate arrays have at most MaxRows rows and MaxCols columns
MaxRows == 4
MaxCols == 3
\* getedge is called with a stride of 1 .. MaxStep
MaxStep == 3
\* the directory given to getoverpassesbygranulefordir lists at most
\* MaxAggFiles entries
MaxAggFiles == 3
\* the scene directories under the base directory hold at most MaxGranules
\* granules together
MaxGranules == 2
\* getgranulecatalog is called at most MaxCalls times on the same files
MaxCalls == 2
\* at most MaxFull granules of a disk have the files of all 25 band types
MaxFull == 1

-----------------------------------------------------------------------------
(* Strings *)

Upper == "ABCDEFGHIJKLMNOPQRSTUVWXYZ"
Lowercase == "abcdefghijklmnopqrstuvwxyz"

Ch(s, i) == SubSeq(s, i, i)

\* position of the one-character string c in s, 0 when it is not in s
IndexIn(c, s) ==
    LET P == {i \in 1..Len(s) : Ch(s, i) = c}
    IN  IF P = {} THEN 0 ELSE CHOOSE i \in P : \A j \in P : i <= j

\* str.lower() with the case conversion left out
lower_nocase(s) == s

\* str.lower()
RECURSIVE lower(_)
lower(s) ==
    IF s = "" THEN ""
    ELSE LET c == Head(s)
             k == IndexIn(c, Upper)
         IN  (IF k = 0 THEN c ELSE SubSeq(Lowercase, k, k)) \o lower(Tail(s))

Digits == "0123456789"
\* the characters of file names and paths, in code point order
CodePoints == "./" \o Digits \o Upper \o "_" \o Lowercase

InClass(c, class) == IndexIn(c, class) > 0

\* s has the literal lit at position i
HasAt(s, i, lit) ==
    /\ i >= 1
    /\ i + Len(lit) - 1 <= Len(s)
    /\ SubSeq(s, i, i + Len(lit) - 1) = lit

\* str.endswith
endswith(s, suffix) == HasAt(s, Len(s) - Len(suffix) + 1, suffix)

\* a < b for strings, as sorted() compares them: by the code points at
\* the first position where they differ, a proper prefix first
StrLess(a, b) ==
    LET n == IF Len(a) < Len(b) THEN Len(a) ELSE Len(b)
    IN  IF SubSeq(a, 1, n) = SubSeq(b, 1, n) THEN Len(a) < Len(b)
        ELSE LET i == CHOOSE i \in 1..n :
                          /\ Ch(a, i) # Ch(b, i)
                          /\ SubSeq(a, 1, i - 1) = SubSeq(b, 1, i - 1)
             IN  IndexIn(Ch(a, i), CodePoints) < IndexIn(Ch(b, i), CodePoints)

\* the sorted sequence seq with the string x put at its place
Insert(seq, x) ==
    LET k == Cardinality({i \in DOMAIN seq : StrLess(seq[i], x)})
    IN  SubSeq(seq, 1, k) \o <<x>> \o SubSeq(seq, k + 1, Len(seq))

\* sorted() of a set of strings, in ascending order
RECURSIVE sorted(_)
sorted(S) ==
    IF S = {} THEN <<>>
    ELSE LET x == CHOOSE x \in S : TRUE
         IN  Insert(sorted(S \ {x}), x)

\* os.path.join of a path and a name
join(path, name) == path \o "/" \o name

\* os.path.split(path)[-1]: what follows the last "/"
RECURSIVE basenameFrom(_, _)
basenameFrom(path, i) ==
    IF i = 0 THEN path
    ELSE IF Ch(path, i) = "/" THEN SubSeq(path, i + 1, Len(path))
    ELSE basenameFrom(path, i - 1)

basename(path) == basenameFrom(path, Len(path))

-----------------------------------------------------------------------------
(* BANDFILES and the completeness checker *)

BANDFILES ==
    [dnb   |-> <<"SVDNB", "GDNBO">>,
     iband |-> <<"SVI01", "SVI02", "SVI03", "SVI04", "SVI05", "GITCO">>,
     mband |-> <<"SVM01", "SVM02", "SVM03", "SVM04", "SVM05",
                 "SVM06", "SVM07", "SVM08", "SVM09", "SVM10",
                 "SVM11", "SVM12", "SVM13", "SVM14", "SVM15",
                 "SVM16", "GMTCO">>]

Range(seq) == {seq[i] : i \in DOMAIN seq}

\* Python truthiness of a dict value (a file name, "" or a flag)
Truthy(v) == v \notin {"", "False", "None"}

\* the loop with the emptiness test dropped: only a missing key is detected
RECURSIVE CheckBands_keyonly(_, _, _)
CheckBands_keyonly(gd, bands, i) ==
    IF i > Len(bands) THEN "True"
    ELSE IF bands[i] \notin DOMAIN gd THEN "False"
    ELSE CheckBands_keyonly(gd, bands, i + 1)

\* the loop over BANDFILES[dataset], from band i on: False at the first
\* band whose key is missing (KeyError) or whose value is falsy
RECURSIVE CheckBands(_, _, _)
CheckBands(gd, bands, i) ==
    IF i > Len(bands) THEN "True"
    ELSE IF bands[i] \notin DOMAIN gd THEN "False"
    ELSE IF ~Truthy(gd[bands[i]]) THEN "False"
    ELSE CheckBands(gd, bands, i + 1)

\* the default value of the parameter dataset
DefaultDataset == "iband"

checkviirsganulecomplete(gd, ds) ==
    LET d == lower(ds)
    IN  IF d \notin DOMAIN BANDFILES THEN "None"
        ELSE CheckBands(gd, BANDFILES[d], 1)

-----------------------------------------------------------------------------
(* Inputs of the completeness checker *)

AllCodes == UNION {Range(BANDFILES[d]) : d \in DOMAIN BANDFILES}

\* a well-formed data file name of band type ftype
FileFor(ftype) == ftype \o "_npp_d20190615_t1200000_e1201000_b39000_c1_noaa_ops.h5"

\* the subsets of S with at most k elements
RECURSIVE KSubsets(_, _)
KSubsets(S, k) ==
    IF k = 0 THEN {{}}
    ELSE LET P == KSubsets(S, k - 1)
         IN  P \cup {D \cup {c} : D \in P, c \in S}

\* a complete granule (with the keys the catalog adds, and a code that no
\* dataset requires) in which the codes of D are absent or map to ""
DefectDicts ==
    {[c \in ((AllCodes \cup {"dir", "SVM17"}) \ (D \ E)) |->
         IF c \in E THEN "" ELSE IF c = "dir" THEN "/data/scene" ELSE FileFor(c)] :
       <<D, E>> \in {<<D, E>> \in KSubsets(AllCodes, MaxDefects) \X KSubsets(AllCodes, MaxDefects) :
                       E \subseteq D}}

\* a granule that has only the codes of D
SparseDicts == {[c \in D |-> FileFor(c)] : D \in KSubsets(AllCodes, MaxDefects)}

GranuleDicts == DefectDicts \cup SparseDicts

\* dataset labels, each with the dataset it names ("" for none)
LabelTable ==
    [dnb |-> "dnb", iband |-> "iband", mband |-> "mband",
     DNB |-> "dnb", IBAND |-> "iband", Dnb |-> "dnb", mBand |-> "mband",
     viirs |-> "", ibands |-> "", IBAN |-> ""]

Labels == DOMAIN LabelTable

-----------------------------------------------------------------------------
(* The file name parser: the regular expression of getmatches *)

\* the end of the longest run of characters of class that starts at i
\* (i - 1 when there is none)
RECURSIVE RunEnd(_, _, _)
RunEnd(s, i, class) ==
    IF i <= Len(s) /\ InClass(Ch(s, i), class) THEN RunEnd(s, i + 1, class)
    ELSE i - 1

NoMatch == [matched |-> FALSE, ftype |-> "", date |-> "", time |-> "", orbit |-> ""]

\* the match of the expression at position p of s:
\*   [A-Z0-9]{5} _[a-z]+ _d\d{8} _t\d{7} _e\d+ _b\d+ _c\d+ _\w+.h5
MatchAt(s, p) ==
    LET e1 == RunEnd(s, p + 6, Lowercase)            \* end of the sat id
        e2 == RunEnd(s, e1 + 22, Digits)             \* end of the end time
        e3 == RunEnd(s, e2 + 3, Digits)              \* end of the orbit
        e4 == RunEnd(s, e3 + 3, Digits)              \* end of the creation time
        e5 == RunEnd(s, e4 + 2, Upper \o Lowercase \o Digits \o "_")
    IN  IF /\ p + 4 <= Len(s)
           /\ \A k \in p..(p + 4) : InClass(Ch(s, k), Upper \o Digits)
           /\ HasAt(s, p + 5, "_")
           /\ e1 >= p + 6
           /\ HasAt(s, e1 + 1, "_d")
           /\ RunEnd(s, e1 + 3, Digits) >= e1 + 10
           /\ HasAt(s, e1 + 11, "_t")
           /\ RunEnd(s, e1 + 13, Digits) >= e1 + 19
           /\ HasAt(s, e1 + 20, "_e")
           /\ e2 >= e1 + 22
           /\ HasAt(s, e2 + 1, "_b")
           /\ e3 >= e2 + 3
           /\ HasAt(s, e3 + 1, "_c")
           /\ e4 >= e3 + 3
           /\ HasAt(s, e4 + 1, "_")
           /\ \E q \in (e4 + 2)..e5 : q + 1 <= Len(s) /\ HasAt(s, q + 2, "h5")
        THEN [matched |-> TRUE,
              ftype |-> SubSeq(s, p, p + 4),
              date |-> SubSeq(s, e1 + 3, e1 + 10),
              time |-> SubSeq(s, e1 + 13, e1 + 19),
              orbit |-> SubSeq(s, e2 + 3, e3)]
        ELSE NoMatch

\* regex.search(filename): the leftmost match, from position p on
RECURSIVE search(_, _)
search(s, p) ==
    IF p > Len(s) THEN NoMatch
    ELSE IF MatchAt(s, p).matched THEN MatchAt(s, p)
    ELSE search(s, p + 1)

\* getmatches(datafilelist) with the default regex
getmatches(datafilelist) == [i \in DOMAIN datafilelist |-> search(datafilelist[i], 1)]

-----------------------------------------------------------------------------
(* The granule aggregator *)

isdir(path) == path \in DOMAIN fs
listdir(path) == fs[path]

\* what a call returns when mo.groupdict() is applied to None
AttributeError == [raised |-> "AttributeError"]

EmptyDict == <<>>

\* the granule key of a match
granulestr(mo) == mo.date \o "_" \o mo.time

\* the loop body with a file of a granule and band type already seen kept
AddFile_keepfirst(ov, mo, fname) ==
    LET g == granulestr(mo)
    IN  IF g \in DOMAIN ov
        THEN [ov EXCEPT ![g] = @ @@ (mo.ftype :> fname)]
        ELSE ov @@ (g :> (mo.ftype :> fname))

\* the body of the loop: overpasses[granulestr][ftype] = fname, in a new
\* dict on KeyError
AddFile(ov, mo, fname) ==
    LET g == granulestr(mo)
    IN  IF g \in DOMAIN ov
        THEN [ov EXCEPT ![g] = (mo.ftype :> fname) @@ @]
        ELSE ov @@ (g :> (mo.ftype :> fname))

\* the loop over zip(mos, datafiles), from file i on
RECURSIVE AddFiles(_, _, _, _)
AddFiles(ov, mos, datafiles, i) ==
    IF i > Len(datafiles) THEN ov
    ELSE AddFiles(AddFile(ov, mos[i], datafiles[i]), mos, datafiles, i + 1)

message(name, n) ==
    "Some data files are missing in " \o name \o ": " \o ToString(n)
        \o " is not divisible by 25"

getoverpassesbygranulefordir(dir) ==
    LET d == IF isdir(join(dir, "sdr")) THEN join(dir, "sdr") ELSE dir
        datafiles == sorted({item \in listdir(d) : endswith(item, ".h5")})
        ov0 == ("dir" :> d) @@
               (IF Len(datafiles) % 25 # 0
                THEN ("message" :> message(dir, Len(datafiles)))
                ELSE EmptyDict)
        mos == getmatches(datafiles)
    IN  IF \E i \in DOMAIN mos : ~mos[i].matched
        THEN AttributeError
        ELSE AddFiles(ov0, mos, datafiles, 1)

-----------------------------------------------------------------------------
(* Inputs of the aggregator *)

FileName(ftype, date, time, ctime) ==
    ftype \o "_npp_d" \o date \o "_t" \o time \o "_e1201000_b39000_c" \o ctime
          \o "_noaa_ops.h5"

\* well-formed data files: two band types, two granules, two creation times
AggFiles ==
    {[name |-> FileName(ft, "20190615", t, ToString(c)), ftype |-> ft,
      stamp |-> "20190615_" \o t, ctime |-> c] :
        ft \in {"SVI01", "GITCO"}, t \in {"1200000", "1201000"}, c \in {1, 2}}

\* a file that is no data file, and a data file name outside the grammar
OtherEntries == {"SVI01_npp_d20190615_t1200000_readme.txt", "notes.h5"}

AggEntries == {f.name : f \in AggFiles} \cup OtherEntries

SceneDir == "/data/2019_06_15_123_1200"

\* the scene directory holds the entries itself, or an sdr subdirectory
\* holds them and the scene directory holds a file that is not to be listed
AggDisks ==
    {(SceneDir :> E) : E \in KSubsets(AggEntries, MaxAggFiles)}
    \cup {(SceneDir :> {"sdr", FileName("SVM01", "20190615", "1159000", "1")})
            @@ (join(SceneDir, "sdr") :> E) : E \in KSubsets(AggEntries, MaxAggFiles)}

-----------------------------------------------------------------------------
(* SpecAgg: one call of getoverpassesbygranulefordir *)

InitAgg ==
    /\ fs \in AggDisks
    /\ dirname = SceneDir
    /\ overpasses = EmptyDict
    /\ aggpc = "call"

Aggregate ==
    /\ aggpc = "call"
    /\ LET ov == getoverpassesbygranulefordir(dirname)
       IN  IF ov = AttributeError
           THEN aggpc' = "AttributeError" /\ UNCHANGED overpasses
           ELSE aggpc' = "returned" /\ overpasses' = ov
    /\ UNCHANGED <<fs, dirname>>
    /\ UNCHANGED <<checkvars, edgevars, catvars>>

\* the variables of the aggregator when it is not under study
IdleAgg ==
    /\ fs = EmptyDict /\ dirname = "" /\ overpasses = EmptyDict /\ aggpc = "idle"

-----------------------------------------------------------------------------
(* The footprint extractor.  Arrays are sequences of rows; the row and     *)
(* column indices of the code are 0-based, so element [r, c] of arr is     *)
(* arr[r + 1][c + 1].  Coordinates are integers; FillValue stands for the  *)
(* fill value -999.23 of the VIIRS geolocation arrays.                     *)

FillValue == -999

At(arr, r, c) == arr[r + 1][c + 1]
NRows(arr) == Len(arr)
NCols(arr) == Len(arr[1])

\* the indices lo, lo + stp, ... before hi (stp > 0) or after hi (stp < 0)
RangeIdx(lo, hi, stp) ==
    IF stp > 0
    THEN [k \in 1..(IF hi > lo THEN (hi - lo + stp - 1) \div stp ELSE 0) |->
             lo + (k - 1) * stp]
    ELSE [k \in 1..(IF lo > hi THEN (lo - hi - stp - 1) \div (-stp) ELSE 0) |->
             lo + (k - 1) * stp]

\* a slice bound of a sequence of n elements: a negative bound counts from
\* the end, and the result is clipped to the sequence
SliceBound(n, i, stp) ==
    LET j == IF i < 0 THEN i + n ELSE i
    IN  IF stp > 0
        THEN (IF j < 0 THEN 0 ELSE IF j > n THEN n ELSE j)
        ELSE (IF j < 0 THEN -1 ELSE IF j >= n THEN n - 1 ELSE j)

\* the indices of [start:stop:stp] in a sequence of n elements
Slice(n, start, stop, stp) ==
    RangeIdx(SliceBound(n, start, stp), SliceBound(n, stop, stp), stp)

\* the indices of [::stp] in a sequence of n elements
SliceAll(n, stp) ==
    IF stp > 0 THEN RangeIdx(0, n, stp) ELSE RangeIdx(n - 1, -1, stp)

\* the row mask with np.any in the place of np.all
RowGood_any(row, minval, maxval) ==
    \E c \in DOMAIN row : row[c] > minval /\ row[c] < maxval

\* np.all((row > minval) & (row < maxval))
RowGood(row, minval, maxval) ==
    \A c \in DOMAIN row : row[c] > minval /\ row[c] < maxval

\* np.where(...)[0]: the indices of the good rows, ascending
RECURSIVE goodrows(_, _, _, _)
goodrows(arr, minval, maxval, r) ==
    IF r >= NRows(arr) THEN <<>>
    ELSE (IF RowGood(arr[r + 1], minval, maxval) THEN <<r>> ELSE <<>>)
         \o goodrows(arr, minval, maxval, r + 1)

\* getgoodrows with its default minval and maxval: <<first, last>>, or
\* <<>> when goodrows[0] raises IndexError
getgoodrows(arr) ==
    LET g == goodrows(arr, -180, 180, 0)
    IN  IF g = <<>> THEN <<>> ELSE <<g[1], g[Len(g)]>>

\* arr[r, idx] for a sequence idx of column indices
RowAt(arr, r, idx) == [k \in DOMAIN idx |-> At(arr, r, idx[k])]
\* arr[idx, c] for a sequence idx of row indices (c = -1: the last column)
ColAt(arr, idx, c) ==
    [k \in DOMAIN idx |-> At(arr, idx[k], IF c < 0 THEN c + NCols(arr) ELSE c)]

\* the concatenation of the four slices of getedge
Edge(arr, f, l, stp) ==
    RowAt(arr, f, SliceAll(NCols(arr), stp))
    \o ColAt(arr, Slice(NRows(arr), f, l - stp, stp), -1)
    \o RowAt(arr, l, SliceAll(NCols(arr), -stp))
    \o ColAt(arr, Slice(NRows(arr), l, f, -stp), 0)

\* getedge on the arrays la (lats) and lo (lons): its local variables and
\* the pair it returns, or the IndexError of getgoodrows
getedge(la, lo, stp) ==
    LET fl == getgoodrows(la)
    IN  IF fl = <<>>
        THEN [raised |-> TRUE, frst |-> -1, lst |-> -1,
              edgelons |-> <<>>, edgelats |-> <<>>]
        ELSE [raised |-> FALSE, frst |-> fl[1], lst |-> fl[2],
              edgelons |-> Edge(lo, fl[1], fl[2], stp),
              edgelats |-> Edge(la, fl[1], fl[2], stp)]

-----------------------------------------------------------------------------
(* Inputs of getedge: every row of an array is a row of valid coordinates, *)
(* a row of fill values, or a row whose last element alone is invalid (it  *)
(* lies on the limit 180).                                                 *)

RowKinds == {"valid", "fill", "limit"}

LatValue(r, c) == 10 * r + c
LonValue(r, c) == -(10 * r + c) - 1

MkArray(kinds, w, Value(_, _)) ==
    [r1 \in DOMAIN kinds |->
        [c1 \in 1..w |->
            CASE kinds[r1] = "valid" -> Value(r1 - 1, c1 - 1)
              [] kinds[r1] = "fill"  -> FillValue
              [] OTHER -> IF c1 = w THEN 180 ELSE Value(r1 - 1, c1 - 1)]]

LatArrays(h, w) == {MkArray(k, w, LatValue) : k \in [1..h -> RowKinds]}
LonArrays(h, w) == {MkArray(k, w, LonValue) : k \in [1..h -> {"valid", "fill"}]}

-----------------------------------------------------------------------------
(* SpecEdge: one call of getedge *)

InitEdge ==
    /\ \E h \in 1..MaxRows, w \in 1..MaxCols :
          /\ lats \in LatArrays(h, w)
          /\ lons \in LonArrays(h, w)
    /\ step \in 1..MaxStep
    /\ frst = -1
    /\ lst = -1
    /\ edgelons = <<>>
    /\ edgelats = <<>>
    /\ edgepc = "call"

CallGetedge ==
    /\ edgepc = "call"
    /\ LET e == getedge(lats, lons, step)
       IN  IF e.raised
           THEN /\ edgepc' = "IndexError"
                /\ UNCHANGED <<frst, lst, edgelons, edgelats>>
           ELSE /\ frst' = e.frst
                /\ lst' = e.lst
                /\ edgelons' = e.edgelons
                /\ edgelats' = e.edgelats
                /\ edgepc' = "returned"
    /\ UNCHANGED <<lats, lons, step>>
    /\ UNCHANGED <<checkvars, fs, aggvars, catvars>>

\* the variables of the completeness checker when it is not under study
IdleCheck ==
    /\ granuledict = <<>> /\ dataset = "" /\ complete = "unset" /\ checkpc = "idle"

\* the variables of getedge when it is not the operation under study
IdleEdge ==
    /\ lats = <<>> /\ lons = <<>> /\ step = 0 /\ frst = -1 /\ lst = -1
    /\ edgelons = <<>> /\ edgelats = <<>> /\ edgepc = "idle"

-----------------------------------------------------------------------------
(* The directory scanner and getfilesbygranule *)

\* the pattern of getdefaultsubdirs, one character class for each position
ScenePattern ==
    <<"2", "0", "01", Digits, "_", "01", Digits, "_", "0123", Digits, "_",
      Digits, Digits, Digits, "_", "012", Digits, "0123456", Digits>>

globmatch(name) ==
    /\ Len(name) = Len(ScenePattern)
    /\ \A i \in 1..Len(name) : InClass(Ch(name, i), ScenePattern[i])

getdefaultsubdirs(base) ==
    sorted({join(base, n) : n \in {n \in listdir(base) : globmatch(n)}})

Raised(x) == "raised" \in DOMAIN x

\* dict[key] = value
Put(dict, key, value) == (key :> value) @@ dict

\* the loop of getfilesbygranule from subdirectory i on; the OrderedDict is a
\* record of its keys in insertion order and of its mapping
RECURSIVE AddOverpasses(_, _, _)
AddOverpasses(od, subdirs, i) ==
    IF i > Len(subdirs) THEN od
    ELSE LET name == basename(subdirs[i])
             ov == getoverpassesbygranulefordir(subdirs[i])
         IN  IF Raised(ov) THEN ov
             ELSE AddOverpasses(
                     [keys |-> IF name \in DOMAIN od.map THEN od.keys
                               ELSE Append(od.keys, name),
                      map |-> Put(od.map, name, Put(ov, "dir", subdirs[i]))],
                     subdirs, i + 1)

\* the subdirectories that getfilesbygranule visits, in order; a scenelist
\* of <<>> stands for the default [] and for None
subdirsof(base, sl) ==
    IF sl # <<>>
    THEN SelectSeq([i \in DOMAIN sl |-> join(base, sl[i])], isdir)
    ELSE getdefaultsubdirs(base)

getfilesbygranule(base, sl) ==
    AddOverpasses([keys |-> <<>>, map |-> EmptyDict], subdirsof(base, sl), 1)

-----------------------------------------------------------------------------
(* The imagery files as raster.VIIRSHDF5 presents them.  The health of a    *)
(* file says which access to it fails:                                      *)
(*   "ok"        none                                                       *)
(*   "openfail"  VIIRSHDF5(path) raises IOError                             *)
(*   "metafail"  viirs.meta raises IOError                                  *)
(*   "geofail"   viirs.lats / viirs.lons raise IOError                      *)
(*   "norows"    no row of viirs.lats is valid                              *)
(*   "closefail" viirs.close() raises IOError                               *)
(* A path that names no file cannot be opened.                              *)

Healths == {"ok", "openfail", "metafail", "geofail", "norows", "closefail"}

\* the default value of the parameter step of getedge
DefaultStep == 50

FileLats(path) ==
    MkArray(IF health[path] = "norows" THEN <<"fill", "fill", "fill", "fill">>
            ELSE <<"fill", "valid", "valid", "fill">>, 3, LatValue)
FileLons(path) ==
    MkArray(IF health[path] = "norows" THEN <<"fill", "fill", "fill", "fill">>
            ELSE <<"fill", "valid", "valid", "fill">>, 3, LonValue)

\* viirs.meta['Data_Product'] of the file at path
FileMeta(path) ==
    LET mo == search(basename(path), 1)
    IN  [AggregateBeginningGranuleID |-> "NPP" \o mo.date \o mo.time,
         AggregateBeginningOrbitNumber |-> mo.orbit]

\* Polygon(zip(edgelons, edgelats)).wkt
wkt(elons, elats) ==
    "POLYGON " \o ToString([k \in 1..(IF Len(elons) < Len(elats) THEN Len(elons)
                                      ELSE Len(elats)) |-> <<elons[k], elats[k]>>])

-----------------------------------------------------------------------------
(* The catalog builder *)

basedir == "/data"

\* the keys of BANDFILES, which the loop "for datasettype in BANDFILES" visits
DatasetTypes == <<"dnb", "iband", "mband">>

\* the flag loop from dataset type i on: the checker is called without a
\* dataset argument, so with its default
RECURSIVE SetFlags(_, _)
SetFlags(entry, i) ==
    IF i > Len(DatasetTypes) THEN entry
    ELSE SetFlags(Put(entry, DatasetTypes[i] \o "_complete",
                      checkviirsganulecomplete(entry, DefaultDataset)), i + 1)

\* the locals of a call that has ended
NoLocals ==
    /\ intermediary' = EmptyDict
    /\ catalog' = EmptyDict
    /\ overpass' = ""
    /\ granule' = ""
    /\ todooverpasses' = <<>>
    /\ todogranules' = {}

\* an exception leaves getgranulecatalog: nothing is returned
Raise ==
    /\ pc' = "idle"
    /\ outcome' = "raised"
    /\ returned' = EmptyDict
    /\ NoLocals

\* getgranulecatalog(basedir, scenelist=sl) is called: line 199 and 200
Call(sl) ==
    /\ pc = "idle"
    /\ calls < MaxCalls
    /\ calls' = calls + 1
    /\ scenelist' = sl
    /\ prevscenelist' = scenelist
    /\ prevoutcome' = outcome
    /\ prevreturned' = returned
    /\ viirs' = ""
    /\ openpath' = ""
    /\ unclosed' = {}
    /\ LET im == getfilesbygranule(basedir, sl)
       IN  IF Raised(im)
           THEN Raise
           ELSE /\ intermediary' = im
                /\ catalog' = EmptyDict
                /\ todooverpasses' = im.keys
                /\ todogranules' = {}
                /\ overpass' = ""
                /\ granule' = ""
                /\ pc' = "overpass"
                /\ outcome' = "running"
                /\ returned' = EmptyDict
    /\ UNCHANGED <<checkvars, edgevars, aggvars, fs, health>>

\* line 201: the next overpass of the OrderedDict
NextOverpass ==
    /\ pc = "overpass"
    /\ todooverpasses # <<>>
    /\ overpass' = Head(todooverpasses)
    /\ todooverpasses' = Tail(todooverpasses)
    /\ todogranules' = DOMAIN intermediary.map[Head(todooverpasses)]
    /\ pc' = "granule"
    /\ UNCHANGED <<checkvars, edgevars, aggvars, fs, health, scenelist, intermediary, catalog, granule, iovars, callvars>>

\* line 245: the loops are over
Return ==
    /\ pc = "overpass"
    /\ todooverpasses = <<>>
    /\ pc' = "idle"
    /\ outcome' = "returned"
    /\ returned' = catalog
    /\ NoLocals
    /\ UNCHANGED <<checkvars, edgevars, aggvars, fs, health, scenelist, iovars, calls, prevscenelist, prevoutcome, prevreturned>>

\* line 202: the keys of the overpass are all visited
EndOverpass ==
    /\ pc = "granule"
    /\ todogranules = {}
    /\ pc' = "overpass"
    /\ UNCHANGED <<checkvars, edgevars, aggvars, fs, health, scenelist, intermediary, catalog, loopvars, iovars, callvars>>

\* lines 202 to 204: the next key, in the order of the dict, is no granule
SkipKey ==
    /\ pc = "granule"
    /\ \E g \in todogranules \cap {"dir", "message"} :
          todogranules' = todogranules \ {g}
    /\ UNCHANGED <<checkvars, edgevars, aggvars, fs, health, scenelist, intermediary, catalog, pc, overpass, granule,
                   todooverpasses, iovars, callvars>>

\* lines 202 to 211: the next key, in the order of the dict, is a granule
RecordGranule ==
    /\ pc = "granule"
    /\ \E g \in todogranules \ {"dir", "message"} :
          LET entry == SetFlags(Put(intermediary.map[overpass][g], "dir",
                                    intermediary.map[overpass]["dir"]), 1)
          IN  /\ todogranules' = todogranules \ {g}
              /\ granule' = g
              /\ catalog' = Put(catalog, g, entry)
              /\ pc' = IF Truthy(entry["iband_complete"]) THEN "open" ELSE "granule"
    /\ UNCHANGED <<checkvars, edgevars, aggvars, fs, health, scenelist, intermediary, overpass, todooverpasses,
                   iovars, callvars>>

\* lines 212 to 221
Open ==
    /\ pc = "open"
    /\ LET path == join(catalog[granule]["dir"], catalog[granule]["SVI01"])
       IN  /\ openpath' = path
           /\ IF path \notin DOMAIN health \/ health[path] = "openfail"
              THEN /\ catalog' = [catalog EXCEPT ![granule]["iband_complete"] = "False"]
                   /\ pc' = "granule"
                   /\ UNCHANGED <<viirs, unclosed>>
              ELSE /\ viirs' = path
                   /\ unclosed' = unclosed \cup {path}
                   /\ pc' = "meta"
                   /\ UNCHANGED catalog
    /\ UNCHANGED <<checkvars, edgevars, aggvars, fs, health, scenelist, intermediary, loopvars, callvars>>

\* lines 222 to 225, which no try statement encloses
ReadMeta ==
    /\ pc = "meta"
    /\ IF health[viirs] = "metafail"
       THEN Raise
       ELSE /\ catalog' = [catalog EXCEPT ![granule] =
                   Put(Put(@, "granuleID", FileMeta(viirs).AggregateBeginningGranuleID),
                       "orbitnumber", FileMeta(viirs).AggregateBeginningOrbitNumber)]
            /\ pc' = "geo"
            /\ UNCHANGED <<intermediary, loopvars, outcome, returned>>
    /\ UNCHANGED <<checkvars, edgevars, aggvars, fs, health, scenelist, iovars, calls, prevscenelist, prevoutcome,
                   prevreturned>>

\* lines 226 to 236: an IOError is caught, the IndexError of getgoodrows
\* is not
ReadGeo ==
    /\ pc = "geo"
    /\ LET withnode == [catalog EXCEPT ![granule] = Put(@, "ascending_node", "True")]
           e == getedge(FileLats(viirs), FileLons(viirs), DefaultStep)
       IN  IF health[viirs] = "geofail"
           THEN /\ catalog' = [withnode EXCEPT ![granule]["iband_complete"] = "False"]
                /\ pc' = "granule"
                /\ UNCHANGED <<intermediary, loopvars, outcome, returned>>
           ELSE IF e.raised
           THEN Raise
           ELSE /\ catalog' = [withnode EXCEPT ![granule] =
                       Put(@, "edgepolygon_I", wkt(e.edgelons, e.edgelats))]
                /\ pc' = "close"
                /\ UNCHANGED <<intermediary, loopvars, outcome, returned>>
    /\ UNCHANGED <<checkvars, edgevars, aggvars, fs, health, scenelist, iovars, calls, prevscenelist, prevoutcome,
                   prevreturned>>

\* lines 237 to 244
Close ==
    /\ pc = "close"
    /\ unclosed' = unclosed \ {viirs}
    /\ catalog' = IF health[viirs] = "closefail"
                  THEN [catalog EXCEPT ![granule]["iband_complete"] = "False"]
                  ELSE catalog
    /\ pc' = "granule"
    /\ UNCHANGED <<checkvars, edgevars, aggvars, fs, health, scenelist, intermediary, loopvars, viirs, openpath, callvars>>

\* the variables of the catalog builder when it is not under study
IdleCatalog ==
    /\ health = EmptyDict /\ scenelist = <<>> /\ intermediary = EmptyDict
    /\ catalog = EmptyDict /\ overpass = "" /\ granule = "" /\ viirs = ""
    /\ pc = "off" /\ todooverpasses = <<>> /\ todogranules = {} /\ openpath = ""
    /\ unclosed = {} /\ calls = 0 /\ outcome = "none" /\ returned = EmptyDict
    /\ prevscenelist = <<>> /\ prevoutcome = "none" /\ prevreturned = EmptyDict

-----------------------------------------------------------------------------
(* Inputs of the catalog builder: up to MaxGranules granules in two scene   *)
(* directories.  The first scene holds granules of two stamps, the second  *)
(* scene a granule of the first stamp, which the scenes then share.  A      *)
(* granule has all 25 band types, the imagery band types only, or the      *)
(* imagery band types less one; at most MaxFull granules have all 25.  The *)
(* first granule of the first scene has any health, the others are sound.  *)
(* The first scene comes with or without an sdr subdirectory.              *)

SceneNames == <<"2019_06_15_123_1200", "2019_06_15_123_1340">>
Times == <<"1200000", "1201000">>

Codes(kind) ==
    CASE kind = "full" -> AllCodes
      [] kind = "iband" -> Range(BANDFILES["iband"])
      [] OTHER -> Range(BANDFILES["iband"]) \ {"SVI03"}

Kinds == {"full", "iband", "noSVI03"}

GranuleSpecs ==
    {[scene |-> SceneNames[1], time |-> Times[1], kind |-> "iband", health |-> h] :
        h \in Healths}
    \cup {[scene |-> SceneNames[1], time |-> t, kind |-> k, health |-> "ok"] :
        t \in Range(Times), k \in Kinds}
    \cup {[scene |-> SceneNames[2], time |-> Times[1], kind |-> k, health |-> "ok"] :
        k \in Kinds}

Layouts ==
    {L \in KSubsets(GranuleSpecs, MaxGranules) :
        /\ \A g1, g2 \in L : (g1.scene = g2.scene /\ g1.time = g2.time) => g1 = g2
        /\ Cardinality({g \in L : g.kind = "full"}) <= MaxFull}

GranuleFile(g, code) == FileName(code, "20190615", g.time, "1")

\* the directory that holds the files of scene sc
FilesDir(sc, sdr) ==
    IF sc \in sdr THEN join(join(basedir, sc), "sdr") ELSE join(basedir, sc)

DiskFs(L, sdr) ==
    LET scenes == {g.scene : g \in L}
        files(sc) == UNION {{GranuleFile(g, c) : c \in Codes(g.kind)} :
                              g \in {g \in L : g.scene = sc}}
    IN  [p \in {basedir} |-> scenes \cup {"readme"}]
        @@ [p \in {join(basedir, sc) : sc \in scenes \cap sdr} |-> {"sdr"}]
        @@ [p \in {FilesDir(sc, sdr) : sc \in scenes} |->
               files(CHOOSE sc \in scenes : FilesDir(sc, sdr) = p)]

DiskHealth(L, sdr) ==
    LET G == {g \in L : "SVI01" \in Codes(g.kind)}
    IN  [p \in {join(FilesDir(g.scene, sdr), GranuleFile(g, "SVI01")) : g \in G} |->
            (CHOOSE g \in G : join(FilesDir(g.scene, sdr), GranuleFile(g, "SVI01")) = p).health]

\* the scenelist arguments: the default, and the scenes in descending order
SceneLists ==
    {<<>>, <<SceneNames[2], SceneNames[1]>>}

-----------------------------------------------------------------------------
(* Spec: calls of getgranulecatalog on the files of a disk *)

Init ==
    /\ \E L \in Layouts : \E sdr \in SUBSET ({g.scene : g \in L} \cap {SceneNames[1]}) :
          /\ fs = DiskFs(L, sdr)
          /\ health = DiskHealth(L, sdr)
    /\ scenelist = <<>> /\ intermediary = EmptyDict
    /\ catalog = EmptyDict /\ overpass = "" /\ granule = "" /\ viirs = ""
    /\ pc = "idle" /\ todooverpasses = <<>> /\ todogranules = {} /\ openpath = ""
    /\ unclosed = {} /\ calls = 0 /\ outcome = "none" /\ returned = EmptyDict
    /\ prevscenelist = <<>> /\ prevoutcome = "none" /\ prevreturned = EmptyDict
    /\ dirname = "" /\ overpasses = EmptyDict /\ aggpc = "idle"
    /\ IdleCheck /\ IdleEdge

Next ==
    \/ \E sl \in SceneLists : Call(sl)
    \/ NextOverpass
    \/ Return
    \/ EndOverpass
    \/ SkipKey
    \/ RecordGranule
    \/ Open
    \/ ReadMeta
    \/ ReadGeo
    \/ Close

Spec == Init /\ [][Next]_vars

-----------------------------------------------------------------------------
(* SpecCheck: one call of checkviirsganulecomplete *)

InitCheck ==
    /\ granuledict \in GranuleDicts
    /\ dataset \in Labels
    /\ complete = "unset"
    /\ checkpc = "call"
    /\ IdleEdge /\ IdleAgg /\ IdleCatalog

Check ==
    /\ checkpc = "call"
    /\ complete' = checkviirsganulecomplete(granuledict, dataset)
    /\ checkpc' = "returned"
    /\ UNCHANGED <<granuledict, dataset>>
    /\ UNCHANGED <<edgevars, fs, aggvars, catvars>>

NextCheck == Check

SpecCheck == InitCheck /\ [][NextCheck]_vars

-----------------------------------------------------------------------------
(* SpecEdge *)

InitEdgeSpec == InitEdge /\ IdleCheck /\ IdleAgg /\ IdleCatalog

NextEdge == CallGetedge

SpecEdge == InitEdgeSpec /\ [][NextEdge]_vars

-----------------------------------------------------------------------------
(* SpecAgg *)

InitAggSpec == InitAgg /\ IdleCheck /\ IdleEdge /\ IdleCatalog

NextAgg == Aggregate

SpecAgg == InitAggSpec /\ [][NextAgg]_vars

-----------------------------------------------------------------------------
(* Claims about checkviirsganulecomplete (SpecCheck) *)

\* the codes the dataset named by the label requires
Required == Range(BANDFILES[LabelTable[dataset]])

\* C4: for a known dataset label in any letter case the checker returns True
\* if and only if every band-type code of BANDFILES for that dataset is a key
\* of the mapping with a non-empty value, and False otherwise; the other keys
\* of the mapping play no part.
C4_CompleteIffAllRequiredPresent ==
    (checkpc = "returned" /\ LabelTable[dataset] # "") =>
        /\ complete \in {"True", "False"}
        /\ (complete = "True") <=>
              \A c \in Required : c \in DOMAIN granuledict /\ granuledict[c] # ""

\* C4's case: a known label in upper case, every required key present, one
\* of them mapped to "", a code of another dataset absent, and False returned
C4_Witness ==
    /\ checkpc = "returned"
    /\ dataset = "IBAND"
    /\ Required \subseteq DOMAIN granuledict
    /\ \E c \in Required : granuledict[c] = ""
    /\ "SVDNB" \notin DOMAIN granuledict
    /\ complete = "False"

\* C8: a label that does not lower-case to dnb, iband or mband yields None
\* whatever the mapping holds; a label that lower-cases to a known one yields
\* what the lower-case label yields, which is True or False.
C8_UnknownLabelNoneKnownLabelCaseInsensitive ==
    checkpc = "returned" =>
        IF LabelTable[dataset] = ""
        THEN complete = "None"
        ELSE /\ complete = checkviirsganulecomplete(granuledict, LabelTable[dataset])
             /\ complete # "None"

\* C8's case: an unknown label on a mapping that has every code of every
\* dataset returned None
C8_Witness ==
    /\ checkpc = "returned"
    /\ LabelTable[dataset] = ""
    /\ \A c \in AllCodes : c \in DOMAIN granuledict /\ granuledict[c] # ""
    /\ complete = "None"

-----------------------------------------------------------------------------
(* Claims about getedge (SpecEdge) *)

\* the rows of arr all of whose elements lie strictly between -180 and 180
ValidRows(arr) ==
    {r \in 0..(NRows(arr) - 1) :
        \A c \in 0..(NCols(arr) - 1) : At(arr, r, c) > -180 /\ At(arr, r, c) < 180}

IsFirstLast(S, f, l) == f \in S /\ l \in S /\ \A r \in S : f <= r /\ r <= l

\* C6 as stated: the row range of getedge is that of the rows all of whose
\* longitudes lie strictly between -180 and 180.
C6_RowRangeFromLongitudes ==
    edgepc = "returned" => IsFirstLast(ValidRows(lons), frst, lst)

\* C6 as amended: the row range of getedge is computed from the latitude
\* array: first and last are the first and the last row all of whose
\* latitudes lie strictly between -180 and 180.
C6_RowRangeFromLatitudes ==
    edgepc = "returned" => IsFirstLast(ValidRows(lats), frst, lst)

\* C6's case: getedge returned on arrays whose latitude rows and longitude
\* rows are not valid in the same places, one latitude row lying on the limit
C6_Witness ==
    /\ edgepc = "returned"
    /\ frst < lst
    /\ ValidRows(lats) # ValidRows(lons)
    /\ \E r \in 0..(NRows(lats) - 1) : r \notin ValidRows(lats) /\ At(lats, r, 0) # FillValue

\* a boundary of the rows r0 .. r1 of arr at stride stp: the top row left
\* to right, n points of the right column downwards from r0, the bottom row
\* right to left, the left column upwards from r1 to just before r0
Boundary(arr, r0, r1, stp, n) ==
    LET w == NCols(arr)
    IN  [k \in 1..((w + stp - 1) \div stp) |-> At(arr, r0, (k - 1) * stp)]
        \o [k \in 1..n |-> At(arr, r0 + (k - 1) * stp, w - 1)]
        \o [k \in 1..((w + stp - 1) \div stp) |-> At(arr, r1, w - 1 - (k - 1) * stp)]
        \o [k \in 1..((r1 - r0 + stp - 1) \div stp) |-> At(arr, r1 - (k - 1) * stp, 0)]

\* lats and lons are valid exactly in the rows r0 .. r1, fill values elsewhere
ValidRange(r0, r1) ==
    /\ ValidRows(lats) = r0..r1
    /\ ValidRows(lons) = r0..r1
    /\ \A r \in (0..(NRows(lats) - 1)) \ (r0..r1) :
          \A c \in 0..(NCols(lats) - 1) :
              At(lats, r, c) = FillValue /\ At(lons, r, c) = FillValue

\* C5: on arrays whose valid row range is [r0, r1], for every stride, the
\* boundary getedge returns is the top row r0 left to right, the right column
\* top to bottom, the bottom row r1 right to left and the left column bottom
\* to top, and no coordinate of a row outside [r0, r1] is in it.
C5_EdgeIsBoundaryOfValidRows ==
    \A r0, r1 \in 0..(NRows(lats) - 1) :
        (edgepc # "call" /\ r0 <= r1 /\ ValidRange(r0, r1)) =>
            /\ edgepc = "returned"
            /\ \E n \in 0..NRows(lats) :
                  /\ n > 0 => r0 + (n - 1) * step <= r1
                  /\ edgelons = Boundary(lons, r0, r1, step, n)
                  /\ edgelats = Boundary(lats, r0, r1, step, n)
            /\ \A k \in DOMAIN edgelons : edgelons[k] # FillValue
            /\ \A k \in DOMAIN edgelats : edgelats[k] # FillValue

-----------------------------------------------------------------------------
(* Claims about getoverpassesbygranulefordir (SpecAgg) *)

\* the directory whose entries are the scene's files
ListedDir == IF join(dirname, "sdr") \in DOMAIN fs THEN join(dirname, "sdr") ELSE dirname

\* the data files of the scene directory, all of them well-formed
ListedFiles == {f \in AggFiles : f.name \in fs[ListedDir]}
WellFormed == "notes.h5" \notin fs[ListedDir]

\* the granule entries of the by-granule map and the file names they hold
GranuleKeys(ov) == DOMAIN ov \ {"dir", "message"}
StoredNames(ov) == UNION {{ov[g][ft] : ft \in DOMAIN ov[g]} : g \in GranuleKeys(ov)}

Duplicates ==
    \E f, f2 \in ListedFiles : f # f2 /\ f.stamp = f2.stamp /\ f.ftype = f2.ftype

\* C7 as stated: for N well-formed data files of M distinct granules the
\* by-granule map has M granule entries and the file names it holds are
\* exactly the N file names, duplicates of a granule stamp and band-type code
\* included.
C7_AllFilesRecovered ==
    (aggpc # "call" /\ WellFormed) =>
        /\ aggpc = "returned"
        /\ Cardinality(GranuleKeys(overpasses)) = Cardinality({f.stamp : f \in ListedFiles})
        /\ StoredNames(overpasses) = {f.name : f \in ListedFiles}

\* C7 as amended: the map has M granule entries, and the file names it holds
\* are the N file names less, for every granule stamp and band-type code that
\* several files share, all but the one that sorts last (here: the one with
\* the latest creation time); without such duplicates they are exactly the N
\* file names.
C7_LastDuplicateKept ==
    (aggpc # "call" /\ WellFormed) =>
        /\ aggpc = "returned"
        /\ Cardinality(GranuleKeys(overpasses)) = Cardinality({f.stamp : f \in ListedFiles})
        /\ StoredNames(overpasses) =
              {f.name : f \in {f \in ListedFiles :
                  \A f2 \in ListedFiles :
                      (f2.stamp = f.stamp /\ f2.ftype = f.ftype) => f2.ctime <= f.ctime}}
        /\ ~Duplicates => StoredNames(overpasses) = {f.name : f \in ListedFiles}

\* C7's case: the sdr subdirectory lists three data files of two granules,
\* two of them of one granule and band type, and the map was returned
C7_Witness ==
    /\ aggpc = "returned"
    /\ ListedDir = join(dirname, "sdr")
    /\ Cardinality(ListedFiles) = 3
    /\ Cardinality({f.stamp : f \in ListedFiles}) = 2
    /\ Duplicates

-----------------------------------------------------------------------------
(* Claims on getgranulecatalog, under Spec *)

\* C1: in the returned catalog the flag '<type>_complete' of every granule
\* entry is the result of the completeness checker for that dataset type on
\* the entry's band-type mapping; iband_complete may have been downgraded to
\* False by the raster I/O, so it is True only if the checker says so.
C1_FlagsAreCheckerResults ==
    outcome = "returned" =>
        \A g \in DOMAIN returned :
            /\ \A d \in {"dnb", "mband"} :
                  returned[g][d \o "_complete"] =
                      checkviirsganulecomplete(returned[g], d)
            /\ Truthy(returned[g]["iband_complete"]) =>
                  checkviirsganulecomplete(returned[g], "iband") = "True"

\* C2: a failure to open the imagery file, to read its metadata or to close
\* it never aborts the build: no call ends with an exception raised while
\* the file at hand is one that fails in one of these steps.
C2_FailureNeverAborts ==
    (outcome = "raised" /\ viirs \in DOMAIN health) =>
        health[viirs] \notin {"openfail", "metafail", "closefail"}

\* C3: when the loop is between granules, and when the function has ended,
\* close() has been called on every handle that was opened; at most one
\* handle is open at any time.
C3_HandlesClosedBetweenGranules ==
    /\ pc \in {"granule", "overpass", "idle"} => unclosed = {}
    /\ Cardinality(unclosed) <= 1

\* C9: two calls that return and that visit the same scene directories, in
\* whatever order, return the same catalog.
C9_OrderIndependent ==
    (/\ calls = 2
     /\ outcome = "returned"
     /\ prevoutcome = "returned"
     /\ Range(subdirsof(basedir, scenelist)) = Range(subdirsof(basedir, prevscenelist)))
        => returned = prevreturned

\* C10: the path that is opened names a file of the directory it was listed
\* from, and the band files of a catalog entry are in the directory that the
\* entry's 'dir' field names.
C10_OpensWhereListed ==
    /\ openpath # "" =>
          \E d \in DOMAIN fs : \E n \in fs[d] :
              endswith(n, ".h5") /\ openpath = join(d, n)
    /\ \A g \in DOMAIN catalog :
          \A c \in DOMAIN catalog[g] \cap AllCodes :
              /\ catalog[g]["dir"] \in DOMAIN fs
              /\ catalog[g][c] \in fs[catalog[g]["dir"]]

=============================================================================
